---- MODULE Spec2Model ----
(***************************************************************************)
(* Car game: the vehicle dynamics integrator (BasicPhysicsSimulation,     *)
(* GameLogic in src/src/gameLogic.js), the reactive audio layer           *)
(* (AudioManager, the variant with stopSound in src/unnamed/part_002) and  *)
(* the frame loop that wires them (Game in src/unnamed/part_000).          *)
(*                                                                         *)
(* Numbers.  The program computes in IEEE doubles.  The model computes in  *)
(* fixed point: a real r is the integer round(r * Scale), and every        *)
(* product and quotient is rounded to the nearest unit, as a float         *)
(* operation rounds to the nearest double.  Scale is as fine as TLC's      *)
(* 32-bit integers allow for the products the step forms.                  *)
(*                                                                         *)
(* Geometry.  Every rotation the program composes is about the world up    *)
(* axis (line 58), and the car model's quaternion starts as the identity,  *)
(* so the quaternion this.rotation is the yaw angle it stands for; the     *)
(* velocity never leaves the ground plane (forward has no y component),    *)
(* so it is kept as its x and z components.                                *)
(***************************************************************************)
EXTENDS Integers, Sequences, FiniteSets, TLC

VARIABLES physics, step, keys, carModel, track, carState, audio, out, call, now, ticks, keyEvents

vars == <<physics, step, keys, carModel, track, carState, audio, out, call, now, ticks, keyEvents>>

(***************************************************************************)
(* Fixed-point arithmetic                                                  *)
(***************************************************************************)
Scale == 10 * 1000

One == Scale

Abs(a) == IF a < 0 THEN -a ELSE a

Min(a, b) == IF a < b THEN a ELSE b

\* a / b rounded to the nearest integer, halves away from zero (b > 0)
RDiv(a, b) == IF a >= 0 THEN (2 * a + b) \div (2 * b) ELSE -((2 * (-a) + b) \div (2 * b))

\* the product of two fixed-point numbers
Mul(a, b) == RDiv(a * b, Scale)

\* the quotient of two fixed-point numbers
Div(a, b) == RDiv(a * Scale, b)

RECURSIVE SqrtSearch(_, _, _)
\* the largest r in lo..hi with r * r <= n
SqrtSearch(n, lo, hi) ==
  IF lo >= hi THEN lo
  ELSE LET mid == (lo + hi + 1) \div 2
       IN IF mid * mid <= n THEN SqrtSearch(n, mid, hi) ELSE SqrtSearch(n, lo, mid - 1)

\* the square root of n rounded to the nearest integer
ISqrt(n) ==
  LET r == SqrtSearch(n, 0, Min(n, 46339))
  IN IF n - r * r > r THEN r + 1 ELSE r

Pi == RDiv(Scale * 355, 113)

HalfPi == RDiv(Scale * 355, 226)

\* an angle brought into (-Pi, Pi]
WrapAngle(a) ==
  LET m == a % (2 * Pi)
  IN IF m > Pi THEN m - 2 * Pi ELSE m

\* sin of a fixed-point angle: folded into [-Pi/2, Pi/2], then the Taylor
\* polynomial to the ninth power in Horner form
Sin(a) ==
  LET y == WrapAngle(a)
      z == IF y > HalfPi THEN Pi - y ELSE IF y < -HalfPi THEN -Pi - y ELSE y
      z2 == Mul(z, z)
      t4 == One - RDiv(z2, 72)
      t3 == One - RDiv(Mul(z2, t4), 42)
      t2 == One - RDiv(Mul(z2, t3), 20)
      t1 == One - RDiv(Mul(z2, t2), 6)
  IN Mul(z, t1)

Cos(a) == Sin(a + HalfPi)

(***************************************************************************)
(* THREE.Vector3 on the ground plane                                       *)
(***************************************************************************)
Vec(x, z) == [x |-> x, z |-> z]

ZeroVec == Vec(0, 0)

VecAdd(u, v) == Vec(u.x + v.x, u.z + v.z)

\* Vector3.multiplyScalar
MultiplyScalar(v, s) == Vec(Mul(v.x, s), Mul(v.z, s))

Dot(u, v) == Mul(u.x, v.x) + Mul(u.z, v.z)

\* Vector3.length
Length(v) == ISqrt(v.x * v.x + v.z * v.z)

\* Vector3.normalize: divideScalar(length() || 1)
Normalize(v) ==
  LET len == Length(v)
      d == IF len = 0 THEN One ELSE len
  IN Vec(Div(v.x, d), Div(v.z, d))

\* Vector3.setLength: normalize().multiplyScalar(l)
SetLength(v, l) == MultiplyScalar(Normalize(v), l)

\* new Vector3(0, 0, 1).applyQuaternion(rotation), rotation a yaw angle
Forward(yaw) == Vec(Sin(yaw), Cos(yaw))

(***************************************************************************)
(* BasicPhysicsSimulation (src/src/gameLogic.js)                           *)
(***************************************************************************)
acceleration == 150

deceleration == 9800

brakingDeceleration == 9500

maxSpeed == 5000

turnSpeed == 500

grip == 8500

angularDamping == 9500

steeringFloor == 10

speedAuthority == 5000

suspensionFrequency == 100

suspensionAmplitude == 200

suspensionThreshold == 100

groundHeight == 0

groundClearance == Scale

collisionRefractory == 500

wheelRotationScale == 5000

skidSlideThreshold == 5000

skidSpeedThreshold == 1000

\* the constructor: the state of a new BasicPhysicsSimulation
NewPhysics ==
  [velocity |-> ZeroVec, angularVelocity |-> 0,
   position |-> [x |-> 0, y |-> 0, z |-> 0], rotation |-> 0,
   wheelRotation |-> 0, suspensionHeight |-> 0, lastCollisionTime |-> 0]

\* initializeVehicle: the car model sits at (0, 0.02, 0) with the identity
\* quaternion when Game.loadModels hands it over
InitializeVehicle(p) == [p EXCEPT !.position = [x |-> 0, y |-> 200, z |-> 0], !.rotation = 0]

\* ForwardAtDot had line 35 scaled a copy: forward stays the unit heading
ForwardUnscaled(forward, accelerationForce, throttle) == forward

\* the vector the name forward is bound to when line 40 reads it: line 35's
\* forward.multiplyScalar scales forward in place and returns the same
\* object, so under throttle forward IS accelerationForce
ForwardAtDot(forward, accelerationForce, throttle) ==
  IF throttle # 0 THEN accelerationForce ELSE forward

\* SteeringAmount without the speed term: the same authority at every speed
SteeringAmountFlat(steering, speed) == Mul(steering, turnSpeed)

\* line 49: input.steering * turnSpeed * (1 - (speed / maxSpeed) * 0.5)
SteeringAmount(steering, speed) ==
  Mul(Mul(steering, turnSpeed), One - Mul(Div(speed, maxSpeed), speedAuthority))

\* lines 48-51: the angular velocity after the steering branch
Steer(angularVelocity, steering, speed) ==
  IF steering # 0 /\ speed > steeringFloor
    THEN angularVelocity + SteeringAmount(steering, speed)
    ELSE angularVelocity

\* lines 62-64: the clamp tests the speed measured at line 30, before the
\* acceleration and the deceleration of this call
LimitSpeed(velocity, speed) ==
  IF speed > maxSpeed THEN SetLength(velocity, maxSpeed) ELSE velocity

\* line 74: Math.sin(Date.now() * 0.01) * 0.02 * speed
SuspensionHeight(t, speed) ==
  Mul(Mul(Sin(t * suspensionFrequency), suspensionAmplitude), speed)

\* CollisionDetected with a detection that fires
CollisionDetectedAlways == TRUE

\* line 79: const hasCollision = false
CollisionDetected == FALSE

\* IsSkidding without the speed floor
IsSkiddingAnySpeed(slideAmount, speed) == slideAmount > skidSlideThreshold

\* line 92
IsSkidding(slideAmount, speed) == slideAmount > skidSlideThreshold /\ speed > skidSpeedThreshold

\* IsSuspensionActive with the threshold itself counted as active
IsSuspensionActiveAtThreshold(suspensionHeight) == Abs(suspensionHeight) >= suspensionThreshold

\* line 93
IsSuspensionActive(suspensionHeight) == Abs(suspensionHeight) > suspensionThreshold

\* IsCollisionNew without the refractory window
IsCollisionNewUnwindowed(hasCollision, t, lastCollisionTime) == hasCollision

\* line 80: hasCollision && (now - this.lastCollisionTime > 500)
IsCollisionNew(hasCollision, t, lastCollisionTime) ==
  hasCollision /\ (t - lastCollisionTime > collisionRefractory)

\* the body of update(input) at clock reading t, the local hasCollision of
\* line 79 having the value detected: the new fields of the simulation
\* (physics), the locals of the call (locals) and the object it returns
\* (result)
PhysicsUpdateWith(p, input, t, detected) ==
  LET forward0 == Forward(p.rotation)
      speed == Length(p.velocity)
      normalizedVelocity == Normalize(p.velocity)
      accelerationForce == MultiplyScalar(forward0, Mul(input.throttle, acceleration))
      v1 == IF input.throttle # 0 THEN VecAdd(p.velocity, accelerationForce) ELSE p.velocity
      forward == ForwardAtDot(forward0, accelerationForce, input.throttle)
      dotProduct == Dot(forward, normalizedVelocity)
      slideAmount == One - Abs(dotProduct)
      currentDeceleration == IF input.brake THEN brakingDeceleration ELSE deceleration
      v2 == MultiplyScalar(v1, currentDeceleration - Mul(slideAmount, One - grip))
      w1 == Steer(p.angularVelocity, input.steering, speed)
      w2 == Mul(w1, angularDamping)
      rotation == WrapAngle(p.rotation - w2)
      v3 == LimitSpeed(v2, speed)
      suspensionHeight == SuspensionHeight(t, speed)
      hasCollision == detected
      isCollisionNew == IsCollisionNew(hasCollision, t, p.lastCollisionTime)
      wheelRotation == p.wheelRotation + Mul(speed, wheelRotationScale)
  IN [physics |->
        [velocity |-> v3, angularVelocity |-> w2,
         position |-> [x |-> p.position.x + v3.x,
                       y |-> groundHeight + Abs(suspensionHeight) + groundClearance,
                       z |-> p.position.z + v3.z],
         rotation |-> rotation, wheelRotation |-> wheelRotation,
         suspensionHeight |-> suspensionHeight,
         lastCollisionTime |-> IF isCollisionNew THEN t ELSE p.lastCollisionTime],
      locals |->
        [called |-> TRUE, input |-> input, speed |-> speed, forward |-> forward0,
         normalizedVelocity |-> normalizedVelocity, slideAmount |-> slideAmount,
         currentDeceleration |-> currentDeceleration,
         angularIncrement |-> w1 - p.angularVelocity,
         factor |-> currentDeceleration - Mul(slideAmount, One - grip),
         accelerated |-> v1, hasCollision |-> hasCollision,
         before |-> p, now |-> t],
      result |->
        [speed |-> speed, isSkidding |-> IsSkidding(slideAmount, speed),
         isSuspensionActive |-> IsSuspensionActive(suspensionHeight),
         hasCollision |-> isCollisionNew, wheelRotation |-> wheelRotation]]

\* update(input) at clock reading t: line 79 binds hasCollision to false
PhysicsUpdate(p, input, t) == PhysicsUpdateWith(p, input, t, CollisionDetected)

\* the locals before any call
NoStep ==
  [called |-> FALSE, input |-> [throttle |-> 0, steering |-> 0, brake |-> FALSE],
   speed |-> 0, forward |-> Forward(0), normalizedVelocity |-> ZeroVec, slideAmount |-> 0,
   currentDeceleration |-> deceleration, angularIncrement |-> 0,
   factor |-> deceleration, accelerated |-> ZeroVec, hasCollision |-> FALSE,
   before |-> NewPhysics, now |-> 0]

(***************************************************************************)
(* AudioManager (src/unnamed/part_002)                                     *)
(***************************************************************************)
Channels == {"engine", "tires", "skidding", "collision", "suspension"}

\* Object.entries(soundFiles): the order loadSounds fetches in
LoadOrder == <<"engine", "tires", "skidding", "collision", "suspension">>

engineSpeedThreshold == 100

tiresSpeedThreshold == 1000

skiddingSpeedThreshold == 1000

suspensionSpeedThreshold == 500

engineBaseGain == 3000

engineGainScale == 7000

tiresGainScale == 5000

\* a channel with no entry in this.sounds; an entry as loadSounds creates it
\* (source: null, gain: createGain(), whose gain is 1)
NoSound == [loaded |-> FALSE, source |-> "none", gain |-> One]

LoadedSound == [loaded |-> TRUE, source |-> "none", gain |-> One]

\* the constructor
NewAudio ==
  [isInitialized |-> FALSE, audioContext |-> FALSE, loading |-> 0,
   sounds |-> [c \in Channels |-> NoSound]]

\* what one update call did to each channel of the audio output
NoOps == [c \in Channels |-> [starts |-> 0, stops |-> 0, gains |-> 0]]

\* what is known of the last update call before any was made
NoCall ==
  [valid |-> FALSE, state |-> [speed |-> 0, isSkidding |-> FALSE,
                               isSuspensionActive |-> FALSE, hasCollision |-> FALSE],
   initialized |-> FALSE, loading |-> 0,
   pre |-> [c \in Channels |-> "none"], post |-> [c \in Channels |-> "none"],
   ops |-> NoOps, raised |-> FALSE,
   repeated |-> FALSE, prevStops |-> [c \in Channels |-> 0], at |-> 0]

\* sounds[name].source.stop(): one source fewer sounding on the channel
StopSource(e, name) ==
  [e EXCEPT !.out[name] = @ - 1, !.ops[name].stops = @ + 1]

\* PlaySound without lines 46-48: the source there is is not stopped
PlaySoundNoStop(e, isInitialized, name, loop) ==
  IF ~isInitialized \/ ~e.sounds[name].loaded THEN e
  ELSE [e EXCEPT !.sounds[name].source = IF loop THEN "looped" ELSE "oneshot",
                 !.out[name] = @ + 1, !.ops[name].starts = @ + 1]

\* PlaySound without line 57: the started source is not kept
PlaySoundUnrecorded(e, isInitialized, name, loop) ==
  IF ~isInitialized \/ ~e.sounds[name].loaded THEN e
  ELSE LET e1 == IF e.sounds[name].source # "none" THEN StopSource(e, name) ELSE e
       IN [e1 EXCEPT !.out[name] = @ + 1, !.ops[name].starts = @ + 1]

\* playSound(name, loop)
PlaySound(e, isInitialized, name, loop) ==
  IF ~isInitialized \/ ~e.sounds[name].loaded THEN e
  ELSE LET e1 == IF e.sounds[name].source # "none" THEN StopSource(e, name) ELSE e
       IN [e1 EXCEPT !.sounds[name].source = IF loop THEN "looped" ELSE "oneshot",
                     !.out[name] = @ + 1, !.ops[name].starts = @ + 1]

\* StopSound that leaves the stopped source in sounds[name].source
StopSoundKeepsSource(e, name) ==
  IF e.sounds[name].loaded /\ e.sounds[name].source # "none"
    THEN StopSource(e, name)
    ELSE e

\* stopSound(name): sounds[name]?.source guards a missing entry
StopSound(e, name) ==
  IF e.sounds[name].loaded /\ e.sounds[name].source # "none"
    THEN [StopSource(e, name) EXCEPT !.sounds[name].source = "none"]
    ELSE e

\* source.playing: an AudioBufferSourceNode has no such property (the code
\* never sets one either), so the read yields undefined
SourcePlaying(source) == FALSE

\* lines 73, 83, 93: !sounds.X.source || !sounds.X.source.playing
NeedsStart(source) == source = "none" \/ ~SourcePlaying(source)

\* UpdateGuard without the test of isInitialized
UpdateUnguarded(isInitialized) == TRUE

\* line 69: update goes on only when isInitialized
UpdateGuard(isInitialized) == isInitialized

\* Looped with the gain written only on the ticks that find the channel
\* without a source
LoopedGainOnStart(e, isInitialized, name, condition, writesGain, gain) ==
  IF e.raised THEN e
  ELSE IF condition
    THEN IF ~e.sounds[name].loaded THEN [e EXCEPT !.raised = TRUE]
         ELSE LET e1 == IF NeedsStart(e.sounds[name].source)
                          THEN PlaySound(e, isInitialized, name, TRUE) ELSE e
              IN IF writesGain /\ e.sounds[name].source = "none"
                   THEN [e1 EXCEPT !.sounds[name].gain = gain, !.ops[name].gains = @ + 1]
                   ELSE e1
    ELSE StopSound(e, name)

\* one looped channel of update (engine 72-79, tires 82-89, skidding 92-98):
\* sounds.X.source on a channel with no entry throws a TypeError, which
\* ends the call (raised)
Looped(e, isInitialized, name, condition, writesGain, gain) ==
  IF e.raised THEN e
  ELSE IF condition
    THEN IF ~e.sounds[name].loaded THEN [e EXCEPT !.raised = TRUE]
         ELSE LET e1 == IF NeedsStart(e.sounds[name].source)
                          THEN PlaySound(e, isInitialized, name, TRUE) ELSE e
              IN IF writesGain
                   THEN [e1 EXCEPT !.sounds[name].gain = gain, !.ops[name].gains = @ + 1]
                   ELSE e1
    ELSE StopSound(e, name)

\* one one-shot channel of update (suspension 101-103, collision 106-108)
OneShot(e, isInitialized, name, condition) ==
  IF e.raised \/ ~condition THEN e ELSE PlaySound(e, isInitialized, name, FALSE)

\* update(carState) on the sounds and the audio output: the sounds and the
\* output after it, what it did (ops), whether it threw (raised)
AudioUpdate(sounds, output, isInitialized, cs) ==
  LET e0 == [sounds |-> sounds, out |-> output, ops |-> NoOps, raised |-> FALSE]
  IN IF ~UpdateGuard(isInitialized) THEN e0
     ELSE LET e1 == Looped(e0, isInitialized, "engine", cs.speed > engineSpeedThreshold,
                           TRUE, engineBaseGain + Mul(cs.speed, engineGainScale))
              e2 == Looped(e1, isInitialized, "tires", cs.speed > tiresSpeedThreshold,
                           TRUE, Min(Mul(cs.speed, tiresGainScale), One))
              e3 == Looped(e2, isInitialized, "skidding",
                           cs.isSkidding /\ cs.speed > skiddingSpeedThreshold, FALSE, 0)
              e4 == OneShot(e3, isInitialized, "suspension",
                            cs.isSuspensionActive /\ cs.speed > suspensionSpeedThreshold)
          IN OneShot(e4, isInitialized, "collision", cs.hasCollision)

\* the record of an update call with state cs made at clock reading t on the
\* manager a, after the call recorded in c: the manager's flags and each
\* channel's source before it (pre) and after it (post), what it did,
\* whether the call before it had the same state (repeated) and the stops
\* that one issued
CallRecord(c, a, cs, e, t) ==
  [valid |-> TRUE, state |-> cs, initialized |-> a.isInitialized,
   loading |-> a.loading,
   pre |-> [ch \in Channels |-> a.sounds[ch].source],
   post |-> [ch \in Channels |-> e.sounds[ch].source],
   ops |-> e.ops, raised |-> e.raised,
   repeated |-> c.valid /\ c.state = cs,
   prevStops |-> [ch \in Channels |-> c.ops[ch].stops], at |-> t]

(***************************************************************************)
(* GameLogic (src/src/gameLogic.js) and Game (src/unnamed/part_000)        *)
(***************************************************************************)
KeyNames == {"ArrowUp", "ArrowDown", "ArrowLeft", "ArrowRight", "Space"}

\* setupControls: no key is down
NoKeys == [k \in KeyNames |-> FALSE]

\* GameLogic.update lines 148-152: the InputFrame the key table stands for
InputOf(k) ==
  [throttle |-> IF k["ArrowUp"] THEN One ELSE IF k["ArrowDown"] THEN -(One \div 2) ELSE 0,
   steering |-> IF k["ArrowLeft"] THEN -One ELSE IF k["ArrowRight"] THEN One ELSE 0,
   brake |-> k["Space"]]

\* the carState of a new GameLogic
NewCarState ==
  [speed |-> 0, isSkidding |-> FALSE, isSuspensionActive |-> FALSE, hasCollision |-> FALSE]

\* lines 173-178: the fields of the physics state kept for the audio
CarStateOf(r) ==
  [speed |-> r.speed, isSkidding |-> r.isSkidding,
   isSuspensionActive |-> r.isSuspensionActive, hasCollision |-> r.hasCollision]

(***************************************************************************)
(* Bounds                                                                  *)
(***************************************************************************)
MaxFrames == 3

MaxKeyEvents == 2

DriveTicks == 64

DriveKeyEvents == 1

KeyWindow == 4

ThrottleTicks == 120

DecaySteps == 260

MaxSteps == 1

ClockStart == 1000

EventTicks == 4

MaxCalls == 2

\* milliseconds between two animation frames
FrameDeltas == {16, 33}

SteadyFrame == {16}

\* milliseconds between two ticks on which a collision event may be fired:
\* inside the refractory window, on its edge, outside it
EventGaps == {100, 500, 600}

(***************************************************************************)
(* Operations                                                              *)
(***************************************************************************)
\* loadModels, the car callback (part_000 152-177): this.car is set and
\* gameLogic.initializeCarPhysics(car) runs
LoadCar ==
  /\ ~carModel
  /\ carModel' = TRUE
  /\ physics' = InitializeVehicle(physics)
  /\ UNCHANGED <<step, keys, track, carState, audio, out, call, now, ticks, keyEvents>>

\* loadModels, the track callback (part_000 180-189)
LoadTrack ==
  /\ ~track
  /\ track' = TRUE
  /\ UNCHANGED <<physics, step, keys, carModel, carState, audio, out, call, now, ticks, keyEvents>>

\* the first click (part_000 46-48, once): initialize() runs to its await
Click ==
  /\ audio.loading = 0
  /\ ~audio.isInitialized
  /\ audio' = [audio EXCEPT !.audioContext = TRUE, !.loading = 1]
  /\ UNCHANGED <<physics, step, keys, carModel, track, carState, out, call, now, ticks, keyEvents>>

\* one turn of the loop of loadSounds: the fetch and the decoding of one
\* sound end, well (the entry is made) or not (the catch logs it).  After
\* the last turn initialize() resumes in the same task and sets
\* isInitialized
LoadSound ==
  /\ audio.loading \in 1..Len(LoadOrder)
  /\ \E ok \in BOOLEAN :
       audio' = [audio EXCEPT
                   !.sounds[LoadOrder[audio.loading]] = IF ok THEN LoadedSound ELSE NoSound,
                   !.loading = @ + 1,
                   !.isInitialized = (audio.loading = Len(LoadOrder))]
  /\ UNCHANGED <<physics, step, keys, carModel, track, carState, out, call, now, ticks, keyEvents>>

\* the keydown listener (gameLogic.js 124-129)
KeyDown(bound) ==
  /\ keyEvents < bound
  /\ \E k \in KeyNames :
       /\ ~keys[k]
       /\ keys' = [keys EXCEPT ![k] = TRUE]
  /\ keyEvents' = keyEvents + 1
  /\ UNCHANGED <<physics, step, carModel, track, carState, audio, out, call, now, ticks>>

\* the keyup listener (gameLogic.js 131-136)
KeyUp(bound) ==
  /\ keyEvents < bound
  /\ \E k \in KeyNames :
       /\ keys[k]
       /\ keys' = [keys EXCEPT ![k] = FALSE]
  /\ keyEvents' = keyEvents + 1
  /\ UNCHANGED <<physics, step, carModel, track, carState, audio, out, call, now, ticks>>

\* FrameRuns that does not wait for the track
FrameRunsWithCar(car, trk) == car

\* part_000 line 201: this.car && this.track (GameLogic.update's own guard,
\* !this.carModel, is false whenever this.car is set: lines 153 and 176 run
\* in one callback)
FrameRuns(car, trk) == car /\ trk

\* Game.animate (part_000 198-217), one frame at clock reading t: when the
\* car and the track are there, GameLogic.update and then
\* AudioManager.update(getCarState()); an exception of AudioManager.update
\* ends the frame, the next one being requested already (line 199)
Animate(bound, deltas) ==
  /\ ticks < bound
  /\ ticks' = ticks + 1
  /\ \E dt \in deltas :
       /\ now' = now + dt
       /\ IF FrameRuns(carModel, track)
            THEN \E u \in {PhysicsUpdate(physics, InputOf(keys), now + dt)} :
                 \E cs \in {CarStateOf(u.result)} :
                 \E e \in {AudioUpdate(audio.sounds, out, audio.isInitialized, cs)} :
                   /\ physics' = u.physics
                   /\ step' = u.locals
                   /\ carState' = cs
                   /\ audio' = [audio EXCEPT !.sounds = e.sounds]
                   /\ out' = e.out
                   /\ call' = CallRecord(call, audio, cs, e, now + dt)
            ELSE UNCHANGED <<physics, step, carState, audio, out, call>>
  /\ UNCHANGED <<keys, carModel, track, keyEvents>>

\* the DerivedStates handed to AudioManager.update when it is driven on its
\* own: a speed in each band its thresholds cut, and every flag
DerivedStates ==
  [speed : {0, 200, 800, 2000}, isSkidding : BOOLEAN,
   isSuspensionActive : BOOLEAN, hasCollision : BOOLEAN]

\* AudioManager.update(cs) called with a DerivedState of the caller's, one
\* of states
UpdateCallOf(states) ==
  /\ \E cs \in states :
       \E e \in {AudioUpdate(audio.sounds, out, audio.isInitialized, cs)} :
          /\ carState' = cs
          /\ audio' = [audio EXCEPT !.sounds = e.sounds]
          /\ out' = e.out
          /\ call' = CallRecord(call, audio, cs, e, now)
  /\ UNCHANGED <<physics, step, keys, carModel, track, now, ticks, keyEvents>>

UpdateCall == UpdateCallOf(DerivedStates)

\* the DerivedStates of the updates that run between direct calls of
\* playSound and stopSound: at rest, every condition of update true, and
\* the suspension alone below the tires threshold
CallStates ==
  {[speed |-> 0, isSkidding |-> FALSE, isSuspensionActive |-> FALSE, hasCollision |-> FALSE],
   [speed |-> 2000, isSkidding |-> TRUE, isSuspensionActive |-> TRUE, hasCollision |-> TRUE],
   [speed |-> 800, isSkidding |-> FALSE, isSuspensionActive |-> TRUE, hasCollision |-> FALSE]}

\* AudioManager.playSound(name, loop) called by a caller of the manager
\* (ticks counts the direct calls of playSound and stopSound)
PlaySoundCall(bound) ==
  /\ ticks < bound
  /\ ticks' = ticks + 1
  /\ \E name \in Channels, loop \in BOOLEAN :
       \E e \in {PlaySound([sounds |-> audio.sounds, out |-> out, ops |-> NoOps, raised |-> FALSE],
                           audio.isInitialized, name, loop)} :
          /\ audio' = [audio EXCEPT !.sounds = e.sounds]
          /\ out' = e.out
  /\ UNCHANGED <<physics, step, keys, carModel, track, carState, call, now, keyEvents>>

\* AudioManager.stopSound(name) called by a caller of the manager
StopSoundCall(bound) ==
  /\ ticks < bound
  /\ ticks' = ticks + 1
  /\ \E name \in Channels :
       \E e \in {StopSound([sounds |-> audio.sounds, out |-> out, ops |-> NoOps, raised |-> FALSE],
                           name)} :
          /\ audio' = [audio EXCEPT !.sounds = e.sounds]
          /\ out' = e.out
  /\ UNCHANGED <<physics, step, keys, carModel, track, carState, call, now, keyEvents>>

\* BasicPhysicsSimulation.update(input) called with an InputFrame of the
\* caller's
StepCall(bound, inputs) ==
  /\ ticks < bound
  /\ ticks' = ticks + 1
  /\ \E dt \in SteadyFrame, input \in inputs :
       /\ now' = now + dt
       /\ \E u \in {PhysicsUpdate(physics, input, now + dt)} :
            /\ physics' = u.physics
            /\ step' = u.locals
            /\ carState' = CarStateOf(u.result)
  /\ UNCHANGED <<keys, carModel, track, audio, out, call, keyEvents>>

\* BasicPhysicsSimulation.update(input) on a tick where a collision event
\* may be fired: the local hasCollision of line 79 is the event, lines
\* 80-83 run on it as written
EventStepCall(bound, inputs, gaps) ==
  /\ ticks < bound
  /\ ticks' = ticks + 1
  /\ \E dt \in gaps, input \in inputs, detected \in BOOLEAN :
       /\ now' = now + dt
       /\ \E u \in {PhysicsUpdateWith(physics, input, now + dt, detected)} :
            /\ physics' = u.physics
            /\ step' = u.locals
            /\ carState' = CarStateOf(u.result)
  /\ UNCHANGED <<keys, carModel, track, audio, out, call, keyEvents>>

\* a step that counts a tick: a frame of the loop, or a call of the step
Tick(bound) == ticks < bound /\ ticks' = ticks + 1

(***************************************************************************)
(* Specifications                                                          *)
(***************************************************************************)
\* the game as Game.init leaves it: nothing loaded, no key down
Init ==
  /\ physics = NewPhysics
  /\ step = NoStep
  /\ keys = NoKeys
  /\ carModel = FALSE
  /\ track = FALSE
  /\ carState = NewCarState
  /\ audio = NewAudio
  /\ out = [c \in Channels |-> 0]
  /\ call = NoCall
  /\ now = ClockStart
  /\ ticks = 0
  /\ keyEvents = 0

Next ==
  \/ LoadCar
  \/ LoadTrack
  \/ Click
  \/ LoadSound
  \/ KeyDown(MaxKeyEvents)
  \/ KeyUp(MaxKeyEvents)
  \/ Animate(MaxFrames, SteadyFrame)

Spec == Init /\ [][Next]_vars

\* the AudioManager alone, driven through initialize and update
NextAudio == Click \/ LoadSound \/ UpdateCall

SpecAudio == Init /\ [][NextAudio]_vars

\* the AudioManager driven through every method it has
NextCalls ==
  \/ Click
  \/ LoadSound
  \/ UpdateCallOf(CallStates)
  \/ PlaySoundCall(MaxCalls)
  \/ StopSoundCall(MaxCalls)

SpecCalls == Init /\ [][NextCalls]_vars

\* the audio once every sound is loaded
ReadyAudio ==
  [isInitialized |-> TRUE, audioContext |-> TRUE, loading |-> Len(LoadOrder) + 1,
   sounds |-> [c \in Channels |-> LoadedSound]]

\* the game with both models and every sound loaded, the car at rest, and
\* the keys in table k
Loaded(k) ==
  /\ physics = InitializeVehicle(NewPhysics)
  /\ step = NoStep
  /\ keys = k
  /\ carModel = TRUE
  /\ track = TRUE
  /\ carState = NewCarState
  /\ audio = ReadyAudio
  /\ out = [c \in Channels |-> 0]
  /\ call = NoCall
  /\ now = ClockStart
  /\ ticks = 0
  /\ keyEvents = 0

\* driving from rest: any keys down at the first frame, key events in the
\* first KeyWindow frames, the keys held from then on
InitDrive == \E k \in [KeyNames -> BOOLEAN] : Loaded(k)

NextDrive ==
  \/ (ticks < KeyWindow /\ KeyDown(DriveKeyEvents))
  \/ (ticks < KeyWindow /\ KeyUp(DriveKeyEvents))
  \/ Animate(DriveTicks, SteadyFrame)

SpecDrive == InitDrive /\ [][NextDrive]_vars

\* full throttle from rest: ArrowUp held, nothing else
InitThrottle == Loaded([NoKeys EXCEPT !["ArrowUp"] = TRUE])

NextThrottle == Animate(ThrottleTicks, FrameDeltas)

SpecThrottle == InitThrottle /\ [][NextThrottle]_vars

\* the frame loop runs on: requestAnimationFrame is called first in every
\* frame (part_000 199), so a frame that can be taken is taken.  A frame
\* is the only step that counts a tick
FairSpecThrottle == SpecThrottle /\ WF_ticks(Tick(ThrottleTicks))

\* a BasicPhysicsSimulation put in a state of the caller's choosing: the
\* velocity and the heading components from a grid that has speeds on both
\* sides of maxSpeed and of the skid floor, and velocities along, across and
\* oblique to the heading
StartComponents == {-8000, -2000, -500, 0, 500, 2000, 8000}

StartSpins == {-3000, 0, 3000}

StartHeadings == {0, HalfPi \div 2}

Started(v, w, yaw) ==
  /\ physics = [NewPhysics EXCEPT !.velocity = v, !.angularVelocity = w, !.rotation = yaw]
  /\ step = NoStep
  /\ keys = NoKeys
  /\ carModel = TRUE
  /\ track = TRUE
  /\ carState = NewCarState
  /\ audio = ReadyAudio
  /\ out = [c \in Channels |-> 0]
  /\ call = NoCall
  /\ now = ClockStart
  /\ ticks = 0
  /\ keyEvents = 0

InitStep ==
  \E x \in StartComponents, z \in StartComponents, w \in StartSpins, yaw \in StartHeadings :
    Started(Vec(x, z), w, yaw)

\* every InputFrame of the key mapping
Inputs == {InputOf(k) : k \in [KeyNames -> BOOLEAN]}

ZeroInput == [throttle |-> 0, steering |-> 0, brake |-> FALSE]

\* update calls with any input, from any start
NextStep == StepCall(MaxSteps, Inputs)

SpecStep == InitStep /\ [][NextStep]_vars

\* update calls with no input, from any start
NextDecay == StepCall(DecaySteps, {ZeroInput})

SpecDecay == InitStep /\ [][NextDecay]_vars

\* the calls go on, one per frame
FairSpecDecay == SpecDecay /\ WF_ticks(Tick(DecaySteps))

\* update calls from rest on ticks where collision events are fired
InitEvents == Loaded(NoKeys)

NextEvents == EventStepCall(EventTicks, {ZeroInput, InputOf([NoKeys EXCEPT !["ArrowUp"] = TRUE])}, EventGaps)

SpecEvents == InitEvents /\ [][NextEvents]_vars

\* frames of the loaded game with the car put at a velocity of the
\* caller's choosing (speeds 0, 0.3, 0.4, 0.5 = maxSpeed and above) and the
\* clock at a reading around a trough or a peak of sin(Date.now() * 0.01)
ClockComponents == {-8000, -4000, -3000, 0, 3000, 4000}

ClockReadings == {ClockStart + k : k \in 75 .. 90} \cup {ClockStart + k : k \in 380 .. 400}

ClockKeys == {NoKeys, [NoKeys EXCEPT !["ArrowUp"] = TRUE], [NoKeys EXCEPT !["Space"] = TRUE]}

InitClock ==
  \E x \in ClockComponents, z \in ClockComponents, t \in ClockReadings, k \in ClockKeys :
    /\ physics = [InitializeVehicle(NewPhysics) EXCEPT !.velocity = Vec(x, z)]
    /\ step = NoStep
    /\ keys = k
    /\ carModel = TRUE
    /\ track = TRUE
    /\ carState = NewCarState
    /\ audio = ReadyAudio
    /\ out = [c \in Channels |-> 0]
    /\ call = NoCall
    /\ now = t
    /\ ticks = 0
    /\ keyEvents = 0

NextClock == Animate(MaxSteps, SteadyFrame)

SpecClock == InitClock /\ [][NextClock]_vars

(***************************************************************************)
(* Properties                                                              *)
(***************************************************************************)
LoopedChannels == {"engine", "tires", "skidding"}

\* the condition under which update wants a looped channel to sound
PlayCondition(ch, cs) ==
  CASE ch = "engine" -> cs.speed > engineSpeedThreshold
    [] ch = "tires" -> cs.speed > tiresSpeedThreshold
    [] ch = "skidding" -> cs.isSkidding /\ cs.speed > skiddingSpeedThreshold

AllLoaded == \A ch \in Channels : audio.sounds[ch].loaded

\* C1: with every sound loaded, an update call that finds a looped channel
\* with a source and its play condition true neither stops nor starts a
\* source on it; a source is started only on a channel that had none.
C1_NoRedundantRestart ==
  (call.valid /\ call.initialized /\ AllLoaded) =>
    \A ch \in LoopedChannels :
      /\ (call.pre[ch] # "none" /\ PlayCondition(ch, call.state)) =>
           (call.ops[ch].starts = 0 /\ call.ops[ch].stops = 0)
      /\ call.ops[ch].starts > 0 => call.pre[ch] = "none"

\* C2: update never raises, whatever sounds failed to load: it skips the
\* channels without an entry and goes on to the others.
C2_UpdateNeverRaises == call.valid => ~call.raised

\* C3: an update call made before the loading of the sounds has finished
\* does nothing to the audio output (no start, no stop, no gain write),
\* leaves every channel's source as it was and does not raise.
C3_NoOpBeforeLoaded ==
  (call.valid /\ call.loading <= Len(LoadOrder)) =>
    (call.ops = NoOps /\ call.post = call.pre /\ ~call.raised)

\* an update call was made at speed above the engine threshold while the
\* sounds were being loaded, one of them already decoded
C3_Witness ==
  /\ call.valid
  /\ call.loading \in 2..Len(LoadOrder)
  /\ call.state.speed > engineSpeedThreshold
  /\ \E ch \in Channels : audio.sounds[ch].loaded

\* C4 as claimed: two update calls in a row with the same state of speed 0
\* issue at most one stop per channel between them, on every channel, and
\* the second issues none on a channel that has no source.
C4_AtMostOneStop ==
  (call.valid /\ call.repeated /\ call.state.speed = 0) =>
    \A ch \in Channels :
      /\ call.prevStops[ch] + call.ops[ch].stops <= 1
      /\ call.pre[ch] = "none" => call.ops[ch].stops = 0

\* a first update call of speed 0 stopped the engine, and a second call
\* with the same state followed
C4_Witness ==
  /\ call.valid
  /\ call.repeated
  /\ call.state.speed = 0
  /\ call.prevStops["engine"] = 1

\* C4 amended: ... at most one stop on every channel that the state does
\* not retrigger as a one-shot (all of them when hasCollision is false; with
\* hasCollision true each call restarts the collision one-shot, and so
\* stops the source the call before started); the second call issues no
\* stop on a channel that has no source.
C4_AtMostOneStopUnlessRetriggered ==
  (call.valid /\ call.repeated /\ call.state.speed = 0) =>
    \A ch \in Channels :
      /\ (ch # "collision" \/ ~call.state.hasCollision) =>
           call.prevStops[ch] + call.ops[ch].stops <= 1
      /\ call.pre[ch] = "none" => call.ops[ch].stops = 0

\* one per cent of maxSpeed
SpeedTolerance == maxSpeed \div 100

\* C5: after 50 ticks of full throttle from rest the speed is within 1% of
\* maxSpeed and the engine and the tires channels both sound.
C5_FiftyTicksOfThrottle ==
  ticks = 50 =>
    /\ Abs(carState.speed - maxSpeed) <= SpeedTolerance
    /\ audio.sounds["engine"].source # "none"
    /\ audio.sounds["tires"].source # "none"

\* C6: from rest, after every update call the length of the stored velocity
\* and the speed the call returned are both in [0, maxSpeed].
C6_SpeedClamp ==
  /\ Length(physics.velocity) \in 0..maxSpeed
  /\ carState.speed \in 0..maxSpeed

\* full throttle has been held long enough for the car to be close to the
\* top speed the step gives it
C6_Witness ==
  /\ step.called
  /\ step.input.throttle = One
  /\ ticks > 50
  /\ carState.speed > 700

\* the speed the last update call returned is within tolerance of maxSpeed
AtMaxSpeed == Abs(carState.speed - maxSpeed) <= SpeedTolerance

\* C7: under sustained full throttle from rest the speed comes within
\* tolerance of maxSpeed and stays there.
C7_SpeedConverges == <>[]AtMaxSpeed

\* half a per cent of a unit: below it the fixed-point product by a factor
\* under one no longer shrinks a component
DecayTolerance == Scale \div 200

\* a step in which neither the speed nor the magnitude of the angular
\* velocity grows
NoGrowth ==
  /\ Length(physics'.velocity) <= Length(physics.velocity)
  /\ Abs(physics'.angularVelocity) <= Abs(physics.angularVelocity)

\* the speed and the angular velocity are within tolerance of 0
Decayed ==
  /\ Length(physics.velocity) <= DecayTolerance
  /\ Abs(physics.angularVelocity) <= DecayTolerance

ThrottleFixedPoint ==
  ticks = ThrottleTicks =>
    \A dt \in FrameDeltas :
      PhysicsUpdate(physics, InputOf(keys), now + dt).physics.velocity = physics.velocity

DecayFixedPoint ==
  (ticks = DecaySteps /\ ~Decayed) =>
    /\ PhysicsUpdate(physics, ZeroInput, now).physics.velocity = physics.velocity
    /\ Length(physics.velocity) > maxSpeed

\* the speeds of the start grid that lie in [0, maxSpeed]
GridSpeeds ==
  {Length(Vec(x, z)) : x \in StartComponents, z \in StartComponents} \cap (0..maxSpeed)

\* the difference of speed that changes the steering amount by one unit of
\* the fixed point: two speeds closer than this get the same rounded amount
SpeedResolution == One \div turnSpeed

\* C9 as claimed: with steering 1, at any speed of [0, maxSpeed] update adds
\* strictly less to the angular velocity than at any lower speed (any lower
\* speed the fixed point tells apart).
C9_AuthorityDecreases ==
  (step.called /\ step.input.steering = One /\ step.speed <= maxSpeed) =>
    \A s \in GridSpeeds :
      s + SpeedResolution <= step.speed => Steer(0, One, s) > step.angularIncrement

\* C9 amended: ... for two speeds s1 < s2 both above the steering floor
\* 0.001 and at most maxSpeed (at or below the floor update adds nothing).
C9_AuthorityDecreasesAboveFloor ==
  (step.called /\ step.input.steering = One /\ step.speed <= maxSpeed) =>
    \A s \in GridSpeeds :
      (steeringFloor < s /\ s + SpeedResolution <= step.speed) =>
        Steer(0, One, s) > step.angularIncrement

\* an update call steered right at a speed between the lowest speeds of the
\* grid and maxSpeed
C9_Witness ==
  /\ step.called
  /\ step.input.steering = One
  /\ step.speed \in 2000..maxSpeed
  /\ step.angularIncrement > 0

\* the velocity of state p is not zero and at a right angle to its heading
Orthogonal(p) == p.velocity # ZeroVec /\ Dot(Forward(p.rotation), p.velocity) = 0

\* C10: from a velocity orthogonal to the heading update returns isSkidding
\* true at speed 0.2 and false at speed 0.05; isSkidding is true exactly when
\* slideAmount > 0.5 and speed > 0.1.
C10_SkidBoundary ==
  step.called =>
    /\ (Orthogonal(step.before) /\ step.speed = 2000) => carState.isSkidding
    /\ (Orthogonal(step.before) /\ step.speed = 500) => ~carState.isSkidding
    /\ carState.isSkidding <=>
         (step.slideAmount > skidSlideThreshold /\ step.speed > skidSpeedThreshold)

\* an update call from a velocity across the heading at speed 0.2 reported a
\* skid
C10_Witness ==
  /\ step.called
  /\ Orthogonal(step.before)
  /\ step.speed = 2000
  /\ carState.isSkidding

\* one update call, seen from the state before it: an event is accepted
\* exactly when more than the refractory time has passed since the last
\* accepted one, lastCollisionTime moves to now exactly on acceptance, and
\* of two accepted-then-fired events on successive ticks the second is
\* rejected 100 ms after the first and accepted 600 ms after it
RefractoryStep ==
  /\ carState'.hasCollision <=>
       (step'.hasCollision /\ step'.now - physics.lastCollisionTime > collisionRefractory)
  /\ physics'.lastCollisionTime =
       IF carState'.hasCollision THEN step'.now ELSE physics.lastCollisionTime
  /\ (step.called /\ carState.hasCollision /\ step'.hasCollision) =>
       /\ step'.now - step.now = 100 => ~carState'.hasCollision
       /\ step'.now - step.now = 600 => carState'.hasCollision

FrameOrder ==
  IF ticks' # ticks /\ carModel /\ track
    THEN /\ step'.called /\ step'.now = now' /\ step'.before = physics
         /\ call'.valid /\ call'.at = now'
         /\ call'.state = carState'
         /\ call'.state.speed = step'.speed
         /\ call'.pre = [ch \in Channels |-> audio.sounds[ch].source]
    ELSE UNCHANGED <<step, carState, call, out>>

\* C12: in every frame where the simulation runs the dynamics step
\* completes before AudioManager.update is called, AudioManager.update is
\* called once per dynamics step with the state that step produced in the
\* same frame, and neither runs in a frame where the car or the track is not
\* loaded: the two calls always carry the same clock reading.
C12_TickOrdering ==
  /\ [][FrameOrder]_vars
  /\ [](call.valid <=> step.called)
  /\ [](call.valid => (call.at = step.now /\ call.state.speed = step.speed))

\* a frame ran the step on a moving car and handed its state to the audio
C12_Witness ==
  /\ call.valid
  /\ step.called
  /\ call.at = now
  /\ step.now = now
  /\ call.state.speed > 0

\* C13: with every sound loaded, after every update call, whatever the
\* channels were doing before it, each looped channel has a source, and
\* one source sounding, exactly when its condition holds of the state
\* passed: engine speed > 0.01, tires speed > 0.1, skidding isSkidding and
\* speed > 0.1.
C13_LoopedPolicy ==
  (call.valid /\ call.initialized /\ AllLoaded) =>
    \A ch \in LoopedChannels :
      /\ audio.sounds[ch].source # "none" <=> PlayCondition(ch, call.state)
      /\ out[ch] = IF PlayCondition(ch, call.state) THEN 1 ELSE 0

\* an update call found the skidding channel sounding and a state that no
\* longer skids at a speed above the tires threshold
C13_Witness ==
  /\ call.valid
  /\ call.initialized
  /\ AllLoaded
  /\ call.pre["skidding"] = "looped"
  /\ ~call.state.isSkidding
  /\ call.state.speed > tiresSpeedThreshold
  /\ audio.sounds["skidding"].source = "none"
  /\ audio.sounds["tires"].source = "looped"

\* C14: the speed in the DerivedState an update call returns is the length
\* of the velocity after that call, the velocity the call added to the
\* position.
C14_SpeedIsNewVelocity ==
  step.called =>
    /\ carState.speed = Length(physics.velocity)
    /\ physics.position.x - step.before.position.x = physics.velocity.x
    /\ physics.position.z - step.before.position.z = physics.velocity.z

\* the velocity of state p is not zero and along its heading, forwards or
\* backwards
Parallel(p) ==
  /\ p.velocity # ZeroVec
  /\ Mul(Forward(p.rotation).x, p.velocity.z) = Mul(Forward(p.rotation).z, p.velocity.x)

\* a thousandth: the rounding the fixed point leaves on a slide amount that
\* is 0 in exact arithmetic
SlideTolerance == Scale \div 1000

\* C15: for every input, an update call that starts from a velocity along
\* the heading uses slideAmount 0: it scales the velocity by the chosen
\* deceleration factor alone and returns isSkidding false.
C15_AlignedNoSlide ==
  (step.called /\ Parallel(step.before)) =>
    /\ step.slideAmount <= SlideTolerance
    /\ Abs(step.factor - step.currentDeceleration) <= SlideTolerance
    /\ ~carState.isSkidding

\* the gain update writes for a speed: lines 76 and 86
EngineGain(speed) == engineBaseGain + Mul(speed, engineGainScale)

TiresGain(speed) == Min(Mul(speed, tiresGainScale), One)

\* C16 as claimed: with every sound loaded, every update call writes the
\* gain of the engine channel and of the tires channel from the speed
\* passed, whether the channel starts, stops or stays as it was.
C16_GainEveryTick ==
  (call.valid /\ call.initialized /\ AllLoaded) =>
    /\ call.ops["engine"].gains = 1
    /\ audio.sounds["engine"].gain = EngineGain(call.state.speed)
    /\ call.ops["tires"].gains = 1
    /\ audio.sounds["tires"].gain = TiresGain(call.state.speed)

\* C16 amended: ... every update call in which the channel's play condition
\* holds (engine speed > 0.01, tires speed > 0.1) writes the channel's gain
\* from the speed passed, whether the channel had a source before the call
\* or not; a call in which the condition is false writes no gain on it.
C16_GainWhileConditionHolds ==
  (call.valid /\ call.initialized /\ AllLoaded) =>
    /\ IF PlayCondition("engine", call.state)
         THEN /\ call.ops["engine"].gains = 1
              /\ audio.sounds["engine"].gain = EngineGain(call.state.speed)
         ELSE call.ops["engine"].gains = 0
    /\ IF PlayCondition("tires", call.state)
         THEN /\ call.ops["tires"].gains = 1
              /\ audio.sounds["tires"].gain = TiresGain(call.state.speed)
         ELSE call.ops["tires"].gains = 0

\* an update call found the engine and the tires sounding and wrote both
\* gains for a speed above the tires threshold
C16_Witness ==
  /\ call.valid
  /\ call.initialized
  /\ AllLoaded
  /\ call.pre["engine"] = "looped"
  /\ call.pre["tires"] = "looped"
  /\ call.state.speed > tiresSpeedThreshold
  /\ call.ops["tires"].gains = 1
  /\ audio.sounds["tires"].gain = TiresGain(call.state.speed)

\* the condition under which update retriggers the suspension one-shot
SuspensionCondition(cs) == cs.isSuspensionActive /\ cs.speed > suspensionSpeedThreshold

\* C17: with the suspension sound loaded, an update call whose state has
\* isSuspensionActive and speed > 0.05 stops the suspension source there is,
\* if any, and starts a new one-shot, also right after a call that did the
\* same; a call whose state has not neither starts nor stops the channel.
C17_SuspensionRetrigger ==
  (call.valid /\ call.initialized /\ audio.sounds["suspension"].loaded) =>
    IF SuspensionCondition(call.state)
      THEN /\ call.ops["suspension"].starts = 1
           /\ call.ops["suspension"].stops = IF call.pre["suspension"] = "none" THEN 0 ELSE 1
           /\ call.post["suspension"] = "oneshot"
      ELSE /\ call.ops["suspension"].starts = 0
           /\ call.ops["suspension"].stops = 0
           /\ call.post["suspension"] = call.pre["suspension"]

\* C18: whatever the keys and the clock, every DerivedState update returns
\* has hasCollision false, lastCollisionTime stays at its first value 0, and
\* AudioManager.update never starts the collision channel.
C18_CollisionStub ==
  /\ ~carState.hasCollision
  /\ ~step.hasCollision
  /\ physics.lastCollisionTime = 0
  /\ call.state.hasCollision = FALSE
  /\ call.ops["collision"].starts = 0
  /\ audio.sounds["collision"].source = "none"
  /\ out["collision"] = 0

\* the loaded game has run frames past the refractory time with the car
\* moving and the engine sounding
C18_Witness ==
  /\ step.called
  /\ call.valid
  /\ call.initialized
  /\ step.now - physics.lastCollisionTime > collisionRefractory
  /\ carState.speed > engineSpeedThreshold
  /\ audio.sounds["engine"].source = "looped"
  /\ audio.sounds["collision"].loaded

\* C19: from rest, whatever keys are held and pressed, the speed update
\* returns stays below 0.1 on every tick: isSkidding is false on every tick
\* and the tires and the skidding channels are never started.
C19_NeverReachesTiresSpeed ==
  /\ carState.speed < skidSpeedThreshold
  /\ carState.speed < tiresSpeedThreshold
  /\ Length(physics.velocity) < tiresSpeedThreshold
  /\ ~carState.isSkidding
  /\ \A ch \in {"tires", "skidding"} :
       /\ call.ops[ch].starts = 0
       /\ audio.sounds[ch].source = "none"
       /\ out[ch] = 0

\* throttle and steering have been held together for more than 50 ticks,
\* the car turning fast enough for the engine to sound
C19_Witness ==
  /\ step.called
  /\ call.valid
  /\ step.input.throttle = One
  /\ step.input.steering # 0
  /\ ticks > 50
  /\ carState.speed > engineSpeedThreshold
  /\ physics.rotation # 0
  /\ audio.sounds["engine"].source = "looped"

\* C20: at every clock reading, an update call that measures a speed of at
\* most maxSpeed computes a suspensionHeight of magnitude at most 0.01 and
\* returns isSuspensionActive false, and the update of the audio that
\* follows does not start the suspension one-shot.
C20_SuspensionNeverActive ==
  (step.called /\ step.speed <= maxSpeed) =>
    /\ Abs(physics.suspensionHeight) <= suspensionThreshold
    /\ ~carState.isSuspensionActive
    /\ call.ops["suspension"].starts = 0
    /\ call.post["suspension"] = call.pre["suspension"]

\* an update call at speed maxSpeed fell on a peak of the sine: the
\* suspensionHeight is on the threshold and the suspension stays silent
C20_Witness ==
  /\ step.called
  /\ call.valid
  /\ step.speed = maxSpeed
  /\ Abs(physics.suspensionHeight) = suspensionThreshold
  /\ ~carState.isSuspensionActive
  /\ call.ops["suspension"].starts = 0

\* C21: after any sequence of playSound, stopSound and update calls each
\* channel has at most one source started and not yet stopped, and it has
\* one exactly when sounds[name].source refers to it: no started source is
\* left without a reference, no reference is kept to a stopped one.
C21_OneSourcePerChannel ==
  \A ch \in Channels :
    /\ out[ch] \in {0, 1}
    /\ out[ch] = 1 <=> audio.sounds[ch].source # "none"
    /\ audio.sounds[ch].source # "none" => audio.sounds[ch].loaded

\* after an update call that left the engine and the tires looping,
\* playSound replaced the engine source by a one-shot and stopSound
\* silenced the tires
C21_Witness ==
  /\ call.valid
  /\ call.post["engine"] = "looped"
  /\ call.post["tires"] = "looped"
  /\ audio.sounds["engine"].source = "oneshot"
  /\ out["engine"] = 1
  /\ audio.sounds["tires"].source = "none"
  /\ out["tires"] = 0

====
